---- MODULE Spec2Model ----
(***************************************************************************)
(* Model of src/app.py: the PDFProcessor orchestrator (two memoization     *)
(* caches, sequential batch processing with per-item error isolation) and  *)
(* the collaborators it calls (httpx.get, the temp.pdf file, the document  *)
(* reader, the vector index builder, the query engine).                    *)
(*                                                                         *)
(* One PDFProcessor, driven by one thread of control.  Every collaborator  *)
(* call is one step; the environment decides whether it returns or raises. *)
(***************************************************************************)
EXTENDS Naturals, Sequences, FiniteSets, TLC

\* ------------------------------------------------------------------ bounds

\* longest URL list handed to batch_process_pdfs
MaxBatch == 2
\* number of different texts the language model may give for one (index, query)
NumVariants == 2
\* number of top-level calls the user interface makes on one processor
MaxCalls == 2
\* number of characters typed into the URL text area
MaxText == 4

\* The URLs and queries the user may enter.  "a" with "b:q" and "a:b" with "q"
\* give the same cache key.
URLs == {"a", "a:b"}
Queries == {"q", "b:q"}

VariantTag == <<"1", "2", "3", "4", "5">>

\* ------------------------------------------------------------------- state

VARIABLES
    cache,          \* self.cache: cache key -> answer string
    index_cache,    \* self.index_cache: url -> index
    fs,             \* content of the file temp.pdf, or NoFile
    mode,           \* the top-level call in progress: idle, index, single, batch
    pc,             \* the collaborator call the processor is about to make
    pdf_url,        \* argument of create_index_from_pdf / process_pdf
    query,          \* argument of process_pdf / batch_process_pdfs
    use_cache,      \* argument of process_pdf
    pdf_content,    \* local of create_index_from_pdf
    documents,      \* local of create_index_from_pdf
    index,          \* local of process_pdf
    pdf_urls,       \* argument of batch_process_pdfs
    pos,            \* position of the for loop of batch_process_pdfs
    results,        \* local of batch_process_pdfs
    outcome,        \* how the last top-level call ended, and the index it returned
    inv,            \* history: collaborator invocations of the process_pdf call in progress
    cache0,         \* history: self.cache when the process_pdf call in progress began
    index0,         \* history: self.index_cache when the call in progress began
    last,           \* history: the last completed process_pdf call
    prev,           \* history: the process_pdf call completed just before last, when
                    \* both are calls with use_cache on the same url (else NoPrev)
    firstOk,        \* history: (url, query) -> string of its first successful use_cache call
    calls,          \* history: number of top-level calls made
    writer,         \* history: cache key -> the (url, query) of the call that stored it
    other,          \* the PDFProcessor of a second user session (same working directory)
    ui              \* the URL text area of the batch mode and what a click made of it

vars == <<cache, index_cache, fs, mode, pc, pdf_url, query, use_cache, pdf_content,
          documents, index, pdf_urls, pos, results, outcome, inv, cache0, index0, last,
          prev, firstOk, calls, writer, other, ui>>

\* ----------------------------------------------------------------- values

NoFile == [kind |-> "nofile", of |-> ""]
NoContent == [kind |-> "none", of |-> ""]
NoIndex == [docs |-> <<>>, built |-> FALSE]
\* fetch, build, query: calls of httpx.get, from_documents, query_engine.query;
\* status: the HTTP status httpx.get returned (0: none); hit: served from self.cache;
\* built: from_documents returned; indexed: create_index_from_pdf returned an index
NoInv == [fetch |-> 0, build |-> 0, query |-> 0, status |-> 0, hit |-> FALSE,
          built |-> FALSE, indexed |-> FALSE]
NoCall == [url |-> "", query |-> "", use_cache |-> FALSE, status |-> "none", value |-> "",
           inv |-> NoInv, prior |-> FALSE, cacheSame |-> TRUE, batch |-> FALSE]
NoPrev == [url |-> "", query |-> "", use_cache |-> FALSE, status |-> "none", value |-> "",
           build |-> 0, built |-> FALSE, query_calls |-> 0]
NoOutcome == [op |-> "none", status |-> "none", url |-> "", index |-> NoIndex,
              built |-> FALSE]

EmptyMap == [x \in {} |-> ""]

\* A second session's processor before its first call: st.session_state.processor =
\* PDFProcessor() (lines 127-128), with its own index_cache and its own locals.
NoSession == [pc |-> "idle", pdf_url |-> "", pdf_content |-> NoContent, documents |-> <<>>,
              index |-> NoIndex, index_cache |-> EmptyMap, calls |-> 0]

\* The text area "PDF URLs (one per line)", empty, and no click yet (lines 160-164).
NoUi == [text |-> <<>>, shown |-> "welcome", urls_list |-> <<>>]

\* d[k] = v added to the dict d
Put(d, k, v) == [x \in DOMAIN d \cup {k} |-> IF x = k THEN v ELSE d[x]]

\* All sequences over S of length 0..n
RECURSIVE SeqsUpTo(_, _)
SeqsUpTo(S, n) ==
    IF n = 0 THEN {<<>>}
    ELSE LET shorter == SeqsUpTo(S, n - 1)
         IN shorter \cup {Append(s, x) : s \in {t \in shorter : Len(t) = n - 1}, x \in S}

\* ------------------------------------------------- collaborators (pure part)

\* httpx.get(pdf_url): the responses the server of url u may give.  A response
\* that is not 2xx is returned like any other; only a transport error raises.
HttpResponses(u) ==
    {[status |-> 200, content |-> [kind |-> "pdf", of |-> u]],
     [status |-> 404, content |-> [kind |-> "html", of |-> u]]}

Is2xx(status) == status \in 200..299

\* SimpleDirectoryReader(input_files=[temp_pdf_path]).load_data(): the documents
\* parsed from the bytes that are in the file; bytes that are no PDF give none.
LoadData(bytes) == IF bytes.kind = "pdf" THEN <<bytes>> ELSE <<>>

\* VectorStoreIndex.from_documents(documents, node_parser=parser)
FromDocuments(docs) == [docs |-> docs, built |-> TRUE]

\* query_engine.query(query): the response objects the engine may give
ResponseText(idx, q, v) ==
    IF idx.docs = <<>> THEN "Empty Response"
    ELSE "[" \o idx.docs[1].of \o "|" \o q \o "|" \o VariantTag[v] \o "]"

QueryResponses(idx, q) ==
    {[response |-> ResponseText(idx, q, v), source_nodes |-> idx.docs] : v \in 1..NumVariants}

\* str(response)
Str(r) == r.response

\* ------------------------------------------------------ PDFProcessor (pure part)

\* cache_key = f"{pdf_url}:{query}"
CacheKey(u, q) == u \o ":" \o q

\* An answer cache that is never consulted.
AnswerCached_Never(u, q, uc) == FALSE

\* use_cache and cache_key in self.cache
AnswerCached(u, q, uc) == uc /\ CacheKey(u, q) \in DOMAIN cache

\* An answer that is never stored.
StoreAnswer_Never(u, q, uc, text) == cache

\* An answer that is stored whatever use_cache says.
StoreAnswer_Always(u, q, uc, text) == Put(cache, CacheKey(u, q), text)

\* if use_cache: self.cache[cache_key] = str(response)
StoreAnswer(u, q, uc, text) == IF uc THEN Put(cache, CacheKey(u, q), text) ELSE cache

\* An index cache that is never consulted.
IndexCached_Never(u) == FALSE

\* pdf_url in self.index_cache
IndexCached(u) == u \in DOMAIN index_cache

\* An index that is built and not stored.
StoreIndex_Lost(u, idx) == index_cache

\* self.index_cache[pdf_url] = index
StoreIndex(u, idx) == Put(index_cache, u, idx)

\* raise Exception(f"Error creating index: {str(e)}")
CreateIndexError(cause) == "Error creating index: " \o cause

\* raise Exception(f"Error processing PDF: {str(e)}")
ProcessPdfError(cause) == "Error processing PDF: " \o cause

\* A successful item that is not appended when its process_pdf returns.
SuccessItem_Deferred(rs, u, text) == rs

\* results.append({"url": url, "result": result, "status": "success"})
SuccessItem(rs, u, text) == Append(rs, [url |-> u, result |-> text, status |-> "success"])

\* A failed item that is left out of the results.
ErrorItem_Skip(rs, u, msg) == rs

\* results.append({"url": url, "result": str(e), "status": "error"})
ErrorItem(rs, u, msg) == Append(rs, [url |-> u, result |-> msg, status |-> "error"])

\* ------------------------------------------------------------ initial state

\* PDFProcessor.__init__: both caches empty; no call in progress.
Init ==
    /\ cache = EmptyMap
    /\ index_cache = EmptyMap
    /\ fs = NoFile
    /\ mode = "idle"
    /\ pc = "idle"
    /\ pdf_url = ""
    /\ query = ""
    /\ use_cache = FALSE
    /\ pdf_content = NoContent
    /\ documents = <<>>
    /\ index = NoIndex
    /\ pdf_urls = <<>>
    /\ pos = 0
    /\ results = <<>>
    /\ outcome = NoOutcome
    /\ inv = NoInv
    /\ cache0 = EmptyMap
    /\ index0 = EmptyMap
    /\ last = NoCall
    /\ prev = NoPrev
    /\ firstOk = EmptyMap
    /\ calls = 0
    /\ writer = EmptyMap
    /\ other = NoSession
    /\ ui = NoUi

\* --------------------------------------------------- leaving a call (helpers)

\* The locals of a finished process_pdf / create_index_from_pdf call are gone.
DropLocals ==
    /\ pdf_url' = ""
    /\ use_cache' = FALSE
    /\ pdf_content' = NoContent
    /\ documents' = <<>>
    /\ index' = NoIndex

\* History of a finished process_pdf(u, q, uc) call: st is "ok" or "raised", text the
\* string returned or the message raised, c2 the answer cache it leaves, n its
\* collaborator invocations.
Record(u, q, uc, st, text, c2, n) ==
    /\ last' = [url |-> u, query |-> q, use_cache |-> uc, status |-> st, value |-> text,
                inv |-> n, prior |-> (<<u, q>> \in DOMAIN firstOk),
                cacheSame |-> (c2 = cache0), batch |-> (mode = "batch")]
    /\ prev' = IF uc /\ last.use_cache /\ last.url = u
                THEN [url |-> last.url, query |-> last.query, use_cache |-> last.use_cache,
                      status |-> last.status, value |-> last.value,
                      build |-> last.inv.build, built |-> last.inv.built,
                      query_calls |-> last.inv.query]
                ELSE NoPrev
    /\ firstOk' = IF st = "ok" /\ uc /\ <<u, q>> \notin DOMAIN firstOk
                  THEN Put(firstOk, <<u, q>>, text) ELSE firstOk
    /\ writer' = [k \in DOMAIN c2 |->
                     IF k \in DOMAIN cache /\ c2[k] = cache[k] THEN writer[k] ELSE <<u, q>>]
    /\ inv' = NoInv
    /\ cache0' = c2

\* process_pdf(u, q, uc) ends, leaving the answer cache c2: it returns text (st = "ok",
\* lines 82, 101) or raises an exception with message text (st = "raised", line 104).
\* Its caller is the user interface (lines 227, 243) or the loop of batch_process_pdfs,
\* which appends an item either way and goes on (lines 112-123).
Finish(u, q, uc, st, text, c2, n) ==
    /\ cache' = c2
    /\ Record(u, q, uc, st, text, c2, n)
    /\ DropLocals
    /\ IF mode = "batch"
       THEN /\ results' = IF st = "ok" THEN SuccessItem(results, u, text)
                                       ELSE ErrorItem(results, u, text)
            /\ pos' = pos + 1
            /\ pc' = "loop"
            /\ UNCHANGED <<mode, query, outcome>>
       ELSE /\ outcome' = [NoOutcome EXCEPT !.op = "single", !.status = st, !.url = u]
            /\ mode' = "idle"
            /\ pc' = "idle"
            /\ query' = ""
            /\ UNCHANGED <<results, pos>>

\* return self.cache[cache_key] (line 82) / return str(response) (line 101)
ReturnFromProcessPdf(u, q, uc, text, c2, n) == Finish(u, q, uc, "ok", text, c2, n)

\* A batch that a failing item ends: no try/except around line 112.
RaiseFromProcessPdf_Abort(cause, n) ==
    /\ UNCHANGED <<cache, results, pos, query>>
    /\ Record(pdf_url, query, use_cache, "raised", ProcessPdfError(cause), cache, n)
    /\ DropLocals
    /\ outcome' = [NoOutcome EXCEPT !.op = IF mode = "batch" THEN "batch" ELSE "single",
                                    !.status = "raised", !.url = pdf_url]
    /\ mode' = "idle"
    /\ pc' = "idle"

\* A failure that is memoized: the message is stored under the cache key.
RaiseFromProcessPdf_Memo(cause, n) ==
    Finish(pdf_url, query, use_cache, "raised", ProcessPdfError(cause),
           Put(cache, CacheKey(pdf_url, query), ProcessPdfError(cause)), n)

\* except Exception as e: raise Exception(f"Error processing PDF: {str(e)}")
\* (lines 103-104): the answer cache is left as it is.
RaiseFromProcessPdf(cause, n) ==
    Finish(pdf_url, query, use_cache, "raised", ProcessPdfError(cause), cache, n)

\* A failure that is retried: the call starts over at the fetch instead of raising.
RaiseFromCreateIndex_Retry(cause, n) ==
    /\ pc' = "fetch"
    /\ inv' = n
    /\ pdf_content' = NoContent
    /\ documents' = <<>>
    /\ index' = NoIndex
    /\ UNCHANGED <<cache, mode, pdf_url, query, use_cache, pos, results, outcome, cache0,
                   last, prev, firstOk, writer>>

\* create_index_from_pdf raises (lines 74-75) Exception("Error creating index: " + cause):
\* to the user of a direct call, or into the try block of process_pdf (lines 84-104).
RaiseFromCreateIndex(cause, n) ==
    IF mode = "index"
    THEN /\ outcome' = [NoOutcome EXCEPT !.op = "index", !.status = "raised",
                                         !.url = pdf_url]
         /\ mode' = "idle"
         /\ pc' = "idle"
         /\ inv' = NoInv
         /\ DropLocals
         /\ UNCHANGED <<cache, cache0, query, results, pos, last, prev, firstOk, writer>>
    ELSE RaiseFromProcessPdf(CreateIndexError(cause), n)

\* process_pdf(u, q, uc) up to its first collaborator call (lines 79-86 and 37-38):
\* the answer cache, then the index cache.
EnterProcessPdf(u, q, uc) ==
    IF AnswerCached(u, q, uc)
    THEN /\ ReturnFromProcessPdf(u, q, uc, cache[CacheKey(u, q)], cache,
                                 [NoInv EXCEPT !.hit = TRUE])
    ELSE /\ pdf_url' = u
         /\ query' = q
         /\ use_cache' = uc
         /\ cache0' = cache
         /\ pdf_content' = NoContent
         /\ documents' = <<>>
         /\ IF IndexCached(u)
            THEN /\ index' = index_cache[u]
                 /\ inv' = [NoInv EXCEPT !.indexed = TRUE]
                 /\ pc' = "query"
            ELSE /\ index' = NoIndex
                 /\ inv' = NoInv
                 /\ pc' = "fetch"
         /\ mode' = IF mode = "batch" THEN "batch" ELSE "single"
         /\ outcome' = IF mode = "batch" THEN outcome ELSE NoOutcome
         /\ UNCHANGED <<cache, results, pos, last, prev, firstOk, writer>>

\* ------------------------------------------------------------------ actions

\* The user interface calls processor.process_pdf(pdf_url, query, use_cache=use_cache)
\* (line 227).
CallProcessPdf ==
    /\ pc = "idle"
    /\ calls < MaxCalls
    /\ calls' = calls + 1
    /\ \E u \in URLs, q \in Queries, uc \in BOOLEAN : EnterProcessPdf(u, q, uc)
    /\ index0' = index_cache
    /\ UNCHANGED <<index_cache, fs, pdf_urls>>
    /\ UNCHANGED <<other, ui>>

\* A direct call processor.create_index_from_pdf(pdf_url) (lines 35-38).
CallCreateIndex ==
    /\ pc = "idle"
    /\ calls < MaxCalls
    /\ calls' = calls + 1
    /\ \E u \in URLs :
          IF IndexCached(u)
          THEN /\ outcome' = [NoOutcome EXCEPT !.op = "index", !.status = "ok", !.url = u,
                                               !.index = index_cache[u]]
               /\ UNCHANGED <<mode, pc, pdf_url>>
          ELSE /\ outcome' = NoOutcome
               /\ mode' = "index"
               /\ pc' = "fetch"
               /\ pdf_url' = u
    /\ index0' = index_cache
    /\ UNCHANGED <<cache, index_cache, fs, query, use_cache, pdf_content, documents, index,
                   pdf_urls, pos, results, inv, cache0, last, prev, firstOk>>
    /\ UNCHANGED <<writer, other, ui>>

\* The user interface calls processor.batch_process_pdfs(urls_list, query) (line 202);
\* results = [] (line 108).
CallBatch ==
    /\ pc = "idle"
    /\ calls < MaxCalls
    /\ calls' = calls + 1
    /\ \E us \in SeqsUpTo(URLs, MaxBatch), q \in Queries :
          /\ pdf_urls' = us
          /\ query' = q
    /\ results' = <<>>
    /\ pos' = 1
    /\ mode' = "batch"
    /\ pc' = "loop"
    /\ outcome' = NoOutcome
    /\ UNCHANGED <<cache, index_cache, fs, pdf_url, use_cache, pdf_content, documents, index,
                   inv, cache0, index0, last, prev, firstOk>>
    /\ UNCHANGED <<writer, other, ui>>

\* for url in pdf_urls: result = self.process_pdf(url, query) (lines 110-112)
BatchNext ==
    /\ pc = "loop"
    /\ pos <= Len(pdf_urls)
    /\ EnterProcessPdf(pdf_urls[pos], query, TRUE)
    /\ index0' = index_cache
    /\ UNCHANGED <<index_cache, fs, pdf_urls, calls>>
    /\ UNCHANGED <<other, ui>>

\* return results (line 124)
BatchReturn ==
    /\ pc = "loop"
    /\ pos > Len(pdf_urls)
    /\ outcome' = [NoOutcome EXCEPT !.op = "batch", !.status = "ok"]
    /\ mode' = "idle"
    /\ pc' = "idle"
    /\ query' = ""
    /\ pdf_urls' = <<>>
    /\ results' = <<>>
    /\ pos' = 0
    /\ UNCHANGED <<cache, index_cache, fs, pdf_url, use_cache, pdf_content, documents, index,
                   inv, cache0, index0, last, prev, firstOk, calls>>
    /\ UNCHANGED <<writer, other, ui>>

\* pdf_content = httpx.get(pdf_url).content (line 42): the response's body is taken
\* whatever its status.
Fetch ==
    /\ pc = "fetch"
    /\ \E r \in HttpResponses(pdf_url) :
          /\ pdf_content' = r.content
          /\ inv' = [inv EXCEPT !.fetch = @ + 1, !.status = r.status]
    /\ pc' = "write"
    /\ UNCHANGED <<cache, index_cache, fs, mode, pdf_url, query, use_cache, documents, index,
                   pdf_urls, pos, results, outcome, cache0, index0, last, prev, firstOk,
                   calls>>
    /\ UNCHANGED <<writer, other, ui>>

\* httpx.get raises (no connection, no such host)
FetchRaises ==
    /\ pc = "fetch"
    /\ RaiseFromCreateIndex("ConnectError", [inv EXCEPT !.fetch = @ + 1])
    /\ UNCHANGED <<index_cache, fs, pdf_urls, index0, calls>>
    /\ UNCHANGED <<other, ui>>

\* with open("temp.pdf", "wb") as f: f.write(pdf_content) (lines 45-47)
WriteTemp ==
    /\ pc = "write"
    /\ fs' = pdf_content
    /\ pc' = "load"
    /\ UNCHANGED <<cache, index_cache, mode, pdf_url, query, use_cache, pdf_content, documents,
                   index, pdf_urls, pos, results, outcome, inv, cache0, index0, last, prev,
                   firstOk, calls>>
    /\ UNCHANGED <<writer, other, ui>>

\* open or write raises (read-only directory, disk full)
WriteTempRaises ==
    /\ pc = "write"
    /\ RaiseFromCreateIndex("OSError", inv)
    /\ UNCHANGED <<index_cache, fs, pdf_urls, index0, calls>>
    /\ UNCHANGED <<other, ui>>

\* documents = SimpleDirectoryReader(input_files=["temp.pdf"]).load_data() (lines 50-52):
\* the reader reads the file, not pdf_content.
Load ==
    /\ pc = "load"
    /\ fs # NoFile
    /\ documents' = LoadData(fs)
    /\ pc' = "build"
    /\ UNCHANGED <<cache, index_cache, fs, mode, pdf_url, query, use_cache, pdf_content, index,
                   pdf_urls, pos, results, outcome, inv, cache0, index0, last, prev, firstOk,
                   calls>>
    /\ UNCHANGED <<writer, other, ui>>

\* the reader raises
LoadRaises ==
    /\ pc = "load"
    /\ RaiseFromCreateIndex("ReaderError", inv)
    /\ UNCHANGED <<index_cache, fs, pdf_urls, index0, calls>>
    /\ UNCHANGED <<other, ui>>

\* index = VectorStoreIndex.from_documents(...); self.index_cache[pdf_url] = index
\* (lines 55-67)
Build ==
    /\ pc = "build"
    /\ index' = FromDocuments(documents)
    /\ index_cache' = StoreIndex(pdf_url, index')
    /\ inv' = [inv EXCEPT !.build = @ + 1, !.built = TRUE]
    /\ pc' = "remove"
    /\ UNCHANGED <<cache, fs, mode, pdf_url, query, use_cache, pdf_content, documents,
                   pdf_urls, pos, results, outcome, cache0, index0, last, prev, firstOk,
                   calls>>
    /\ UNCHANGED <<writer, other, ui>>

\* from_documents raises (the embedding service fails)
BuildRaises ==
    /\ pc = "build"
    /\ RaiseFromCreateIndex("EmbeddingError", [inv EXCEPT !.build = @ + 1])
    /\ UNCHANGED <<index_cache, fs, pdf_urls, index0, calls>>
    /\ UNCHANGED <<other, ui>>

\* A cleanup that leaves the file: return index without os.remove.
RemoveTemp_Keep ==
    /\ pc = "remove"
    /\ IF mode = "index"
       THEN /\ outcome' = [NoOutcome EXCEPT !.op = "index", !.status = "ok", !.url = pdf_url,
                                            !.index = index, !.built = TRUE]
            /\ mode' = "idle"
            /\ pc' = "idle"
            /\ inv' = NoInv
            /\ DropLocals
       ELSE /\ pc' = "query"
            /\ inv' = [inv EXCEPT !.indexed = TRUE]
            /\ pdf_content' = NoContent
            /\ documents' = <<>>
            /\ UNCHANGED <<outcome, mode, pdf_url, use_cache, index>>
    /\ UNCHANGED <<cache, index_cache, fs, query, pdf_urls, pos, results, cache0, index0, last,
                   prev, firstOk, calls>>
    /\ UNCHANGED <<writer, other, ui>>

\* os.remove("temp.pdf"); return index (lines 70-72): to the direct caller, or to
\* process_pdf (line 86), which goes on to the query.
RemoveTemp ==
    /\ pc = "remove"
    /\ fs # NoFile
    /\ fs' = NoFile
    /\ IF mode = "index"
       THEN /\ outcome' = [NoOutcome EXCEPT !.op = "index", !.status = "ok", !.url = pdf_url,
                                            !.index = index, !.built = TRUE]
            /\ mode' = "idle"
            /\ pc' = "idle"
            /\ inv' = NoInv
            /\ DropLocals
       ELSE /\ pc' = "query"
            /\ inv' = [inv EXCEPT !.indexed = TRUE]
            /\ pdf_content' = NoContent
            /\ documents' = <<>>
            /\ UNCHANGED <<outcome, mode, pdf_url, use_cache, index>>
    /\ UNCHANGED <<cache, index_cache, query, pdf_urls, pos, results, cache0, index0, last,
                   prev, firstOk, calls>>
    /\ UNCHANGED <<writer, other, ui>>

\* os.remove raises (the file is held open, no permission): the index is cached already
RemoveTempRaises ==
    /\ pc = "remove"
    /\ RaiseFromCreateIndex("PermissionError", inv)
    /\ UNCHANGED <<index_cache, fs, pdf_urls, index0, calls>>
    /\ UNCHANGED <<other, ui>>

\* response = query_engine.query(query); the string is cached when use_cache and
\* returned (lines 89-101)
Query ==
    /\ pc = "query"
    /\ \E r \in QueryResponses(index, query) :
          ReturnFromProcessPdf(pdf_url, query, use_cache, Str(r),
                               StoreAnswer(pdf_url, query, use_cache, Str(r)),
                               [inv EXCEPT !.query = @ + 1])
    /\ UNCHANGED <<index_cache, fs, pdf_urls, index0, calls>>
    /\ UNCHANGED <<other, ui>>

\* the query engine raises (the language model service fails)
QueryRaises ==
    /\ pc = "query"
    /\ RaiseFromProcessPdf("LLMError", [inv EXCEPT !.query = @ + 1])
    /\ UNCHANGED <<index_cache, fs, pdf_urls, index0, calls>>
    /\ UNCHANGED <<other, ui>>

Next ==
    \/ CallProcessPdf
    \/ CallCreateIndex
    \/ CallBatch
    \/ BatchNext
    \/ BatchReturn
    \/ Fetch
    \/ FetchRaises
    \/ WriteTemp
    \/ WriteTempRaises
    \/ Load
    \/ LoadRaises
    \/ Build
    \/ BuildRaises
    \/ RemoveTemp
    \/ RemoveTempRaises
    \/ Query
    \/ QueryRaises

Spec == Init /\ [][Next]_vars

\* ------------------------------------------- two sessions, one working directory

\* Every variable of the first session's processor; the file "temp.pdf" is not among
\* them: it is a relative path in the working directory of the one server process.
sessionVars == <<cache, index_cache, mode, pc, pdf_url, query, use_cache, pdf_content,
                 documents, index, pdf_urls, pos, results, outcome, inv, cache0, index0,
                 last, prev, firstOk, calls, writer>>

\* The second session leaves create_index_from_pdf, by return or by raise.
OtherLeaves(cache2) ==
    [other EXCEPT !.pc = "idle", !.pdf_url = "", !.pdf_content = NoContent,
                  !.documents = <<>>, !.index = NoIndex, !.index_cache = cache2]

\* The second session calls its own processor's create_index_from_pdf(u): lines 37-38
\* return the index it has cached; otherwise the call goes on to line 42.
OtherCallCreateIndex ==
    /\ other.pc = "idle"
    /\ other.calls < MaxCalls
    /\ \E u \in URLs :
          other' = IF u \in DOMAIN other.index_cache
                   THEN [other EXCEPT !.calls = @ + 1]
                   ELSE [other EXCEPT !.calls = @ + 1, !.pc = "fetch", !.pdf_url = u]
    /\ UNCHANGED <<sessionVars, fs, ui>>

\* line 42 in the second session
OtherFetch ==
    /\ other.pc = "fetch"
    /\ \E r \in HttpResponses(other.pdf_url) :
          other' = [other EXCEPT !.pc = "write", !.pdf_content = r.content]
    /\ UNCHANGED <<sessionVars, fs, ui>>

\* lines 45-47 in the second session: the same "temp.pdf"
OtherWriteTemp ==
    /\ other.pc = "write"
    /\ fs' = other.pdf_content
    /\ other' = [other EXCEPT !.pc = "load"]
    /\ UNCHANGED <<sessionVars, ui>>

\* lines 50-52 in the second session
OtherLoad ==
    /\ other.pc = "load"
    /\ fs # NoFile
    /\ other' = [other EXCEPT !.pc = "build", !.documents = LoadData(fs)]
    /\ UNCHANGED <<sessionVars, fs, ui>>

\* lines 60-67 in the second session
OtherBuild ==
    /\ other.pc = "build"
    /\ LET idx == FromDocuments(other.documents)
       IN other' = [other EXCEPT !.pc = "remove", !.index = idx,
                                 !.index_cache = Put(@, other.pdf_url, idx)]
    /\ UNCHANGED <<sessionVars, fs, ui>>

\* line 70 in the second session
OtherRemoveTemp ==
    /\ other.pc = "remove"
    /\ fs # NoFile
    /\ fs' = NoFile
    /\ other' = OtherLeaves(other.index_cache)
    /\ UNCHANGED <<sessionVars, ui>>

\* lines 74-75 in the second session: any of its steps raises (os.remove and the
\* reader raise FileNotFoundError when the first session has removed the file)
OtherRaises ==
    /\ other.pc \in {"fetch", "write", "load", "build", "remove"}
    /\ other' = OtherLeaves(other.index_cache)
    /\ UNCHANGED <<sessionVars, fs, ui>>

\* Both sessions call create_index_from_pdf; their steps interleave.
NextConc ==
    \/ CallCreateIndex
    \/ Fetch
    \/ FetchRaises
    \/ WriteTemp
    \/ WriteTempRaises
    \/ Load
    \/ LoadRaises
    \/ Build
    \/ BuildRaises
    \/ RemoveTemp
    \/ RemoveTempRaises
    \/ OtherCallCreateIndex
    \/ OtherFetch
    \/ OtherWriteTemp
    \/ OtherLoad
    \/ OtherBuild
    \/ OtherRemoveTemp
    \/ OtherRaises

SpecConc == Init /\ [][NextConc]_vars

\* -------------------------------------------------- the batch mode's URL text area

\* The characters a text is made of in this model: a letter, and the whitespace
\* characters blank, carriage return and line feed.
Whitespace == {" ", "\r", "\n"}
Chars == {"h"} \cup Whitespace

\* str.lstrip(), str.rstrip() and str.strip() on a sequence of characters
RECURSIVE LStrip(_)
LStrip(t) == IF t = <<>> THEN <<>>
             ELSE IF Head(t) \in Whitespace THEN LStrip(Tail(t)) ELSE t

RECURSIVE RStrip(_)
RStrip(t) == IF t = <<>> THEN <<>>
             ELSE IF t[Len(t)] \in Whitespace THEN RStrip(SubSeq(t, 1, Len(t) - 1)) ELSE t

Strip(t) == RStrip(LStrip(t))

\* str.split('\n'): the pieces between the line feeds, empty pieces included
RECURSIVE SplitLines(_)
SplitLines(t) ==
    IF \A i \in 1..Len(t) : t[i] # "\n" THEN <<t>>
    ELSE LET i == CHOOSE j \in 1..Len(t) : t[j] = "\n" /\ \A k \in 1..(j - 1) : t[k] # "\n"
         IN <<SubSeq(t, 1, i - 1)>> \o SplitLines(SubSeq(t, i + 1, Len(t)))

\* A comprehension without its condition: every line is kept.
UrlsList_Unfiltered(text) ==
    [i \in 1..Len(SplitLines(text)) |-> Strip(SplitLines(text)[i])]

\* urls_list = [url.strip() for url in pdf_urls.split('\n') if url.strip()] (line 195)
UrlsList(text) ==
    LET kept == SelectSeq(SplitLines(text), LAMBDA url : Strip(url) # <<>>)
    IN [i \in 1..Len(kept) |-> Strip(kept[i])]

\* if pdf_urls and pdf_urls.strip() (line 193)
HasUrls(text) == text # <<>> /\ Strip(text) # <<>>

\* The user types one more character into the text area (lines 160-164); the script
\* reruns with process_button false and shows the welcome text (lines 248-256).
UIType ==
    /\ Len(ui.text) < MaxText
    /\ \E c \in Chars : ui' = [text |-> Append(ui.text, c), shown |-> "welcome",
                              urls_list |-> <<>>]
    /\ UNCHANGED <<sessionVars, fs, other>>

\* "Analyze PDF(s)" is clicked in batch mode and the text has a url (lines 191-202):
\* batch_process_pdfs(urls_list, query) is called and its results are shown.
UIClickCalls ==
    /\ HasUrls(ui.text)
    /\ ui' = [ui EXCEPT !.shown = "results", !.urls_list = UrlsList(ui.text)]
    /\ UNCHANGED <<sessionVars, fs, other>>

\* "Analyze PDF(s)" is clicked in batch mode and the text has no url (lines 219-220):
\* a warning, and no call.
UIClickWarns ==
    /\ ~HasUrls(ui.text)
    /\ ui' = [ui EXCEPT !.shown = "warning", !.urls_list = <<>>]
    /\ UNCHANGED <<sessionVars, fs, other>>

NextUI ==
    \/ UIType
    \/ UIClickCalls
    \/ UIClickWarns

SpecUI == Init /\ [][NextUI]_vars

\* ----------------------------------------------------------------- claims

Completed == last.status # "none"

NoCollaborator(n) == n.fetch = 0 /\ n.build = 0 /\ n.query = 0

\* C1: once process_pdf(s, q, use_cache=True) has returned a string, every later
\* process_pdf(s, q, use_cache=True), whatever was called in between, returns that
\* same string and calls none of httpx.get, from_documents and query_engine.query.
C1_RepeatServedFromCache ==
    (Completed /\ last.use_cache /\ last.prior) =>
        /\ last.status = "ok"
        /\ last.value = firstOk[<<last.url, last.query>>]
        /\ NoCollaborator(last.inv)

\* a later call of the pair, after a call for another pair came in between
C1_Witness ==
    /\ Completed /\ last.use_cache /\ last.prior /\ last.inv.hit
    /\ last.batch /\ pos = 3
    /\ results[1].url # results[2].url

\* C2 as stated: every process_pdf(s, q, use_cache=False) calls the query engine and
\* leaves self.cache as it was.
C2_BypassAlwaysQueries ==
    (Completed /\ ~last.use_cache) => (last.inv.query = 1 /\ last.cacheSame)

\* C2 amended: every process_pdf(s, q, use_cache=False) leaves self.cache as it was
\* and never answers from it; it calls the query engine once whenever
\* create_index_from_pdf gave it an index, and so whenever it returns a string.
C2_BypassQueriesOnceIndexed ==
    (Completed /\ ~last.use_cache) =>
        /\ last.cacheSame
        /\ ~last.inv.hit
        /\ last.inv.indexed => last.inv.query = 1
        /\ last.status = "ok" => last.inv.indexed

\* the answer and the index were cached, and the call still asked the engine
C2_Witness ==
    /\ Completed /\ ~last.use_cache /\ last.status = "ok" /\ last.inv.query = 1
    /\ CacheKey(last.url, last.query) \in DOMAIN cache
    /\ NoCollaborator([last.inv EXCEPT !.query = 0])

\* last and prev are process_pdf(s, q1, True) then process_pdf(s, q2, True), q1 # q2
TwoQueriesOneSource == prev.status # "none" /\ prev.query # last.query

\* C3 as stated: the two calls call from_documents at most once for s.
C3_OneBuildInvocation ==
    TwoQueriesOneSource => prev.build + last.inv.build <= 1

\* C3 amended: the two calls build at most one index for s: from_documents is called
\* a second time only when its first call raised.
C3_OneBuildUnlessFirstRaised ==
    TwoQueriesOneSource =>
        \/ prev.build + last.inv.build <= 1
        \/ prev.build = 1 /\ ~prev.built

\* the first call built the index, the second one queried it
C3_Witness ==
    /\ TwoQueriesOneSource /\ prev.built /\ prev.status = "ok"
    /\ last.status = "ok" /\ last.inv.query = 1

\* batch_process_pdfs is at its return statement (line 124)
BatchAtReturn == mode = "batch" /\ pc = "loop" /\ pos > Len(pdf_urls)

\* C4: batch_process_pdfs returns one item per url of its input, duplicates included,
\* and the item at position i carries the url of position i, whichever items failed.
C4_OneItemPerSourceInOrder ==
    BatchAtReturn =>
        /\ Len(results) = Len(pdf_urls)
        /\ \A i \in 1..Len(pdf_urls) : results[i].url = pdf_urls[i]

\* a batch of one url given twice, the first item failed, the second succeeded
C4_Witness ==
    /\ BatchAtReturn /\ Len(pdf_urls) = MaxBatch
    /\ pdf_urls[1] = pdf_urls[2]
    /\ results[1].status = "error" /\ results[2].status = "success"

\* C5: when the item at position k of a batch fails, the batch appends an item with
\* status error and a non-empty message at position k and goes on: the items before
\* it, the answer cache and the indices cached for other urls are as they were. An
\* item whose call returns gets status success and the string returned. The batch is
\* left only by its return statement, with an item for every url.
C5_BatchFaultIsolation ==
    [][/\ (mode = "batch" /\ pos' = pos + 1) =>
            /\ mode' = "batch" /\ pc' = "loop" /\ pdf_urls' = pdf_urls
            /\ Len(results') = pos
            /\ SubSeq(results', 1, pos - 1) = results
            /\ results'[pos].url = pdf_urls[pos]
            /\ IF last'.status = "raised"
               THEN /\ results'[pos].status = "error"
                    /\ Len(results'[pos].result) > 0
                    /\ cache' = cache0
                    /\ \A u \in DOMAIN index_cache' \ {pdf_urls[pos]} :
                          u \in DOMAIN index0 /\ index_cache'[u] = index0[u]
               ELSE /\ results'[pos].status = "success"
                    /\ results'[pos].result = last'.value
       /\ (mode = "batch" /\ mode' = "batch" /\ pos' # pos + 1) =>
            UNCHANGED <<results, pdf_urls>>
       /\ (mode = "batch" /\ mode' # "batch") =>
            /\ pos > Len(pdf_urls) /\ Len(results) = Len(pdf_urls)
            /\ outcome'.op = "batch" /\ outcome'.status = "ok"
      ]_vars

\* the index build of the first url failed, the second url was answered
C5_Witness ==
    /\ BatchAtReturn /\ Len(pdf_urls) = MaxBatch
    /\ results[1] = [url |-> pdf_urls[1], status |-> "error",
                     result |-> ProcessPdfError(CreateIndexError("EmbeddingError"))]
    /\ results[2].status = "success" /\ results[2].url # results[1].url

\* C6: a process_pdf call that raises, for either value of use_cache and whichever
\* step raised, leaves self.cache as it was when the call began.
C6_FailureLeavesAnswerCache ==
    (Completed /\ last.status = "raised") => last.cacheSame

\* the query engine raised in a use_cache call, with answers cached
C6_Witness ==
    /\ Completed /\ last.status = "raised" /\ last.use_cache /\ last.inv.query = 1
    /\ cache # EmptyMap

\* last and prev are two process_pdf(s, q, True) calls, one right after the other
SameQueryTwice == prev.status # "none" /\ prev.query = last.query

\* C7 as stated: the two calls return the same string and call the query engine at
\* most once in total.
C7_TwiceQueriesOnce ==
    SameQueryTwice =>
        /\ (prev.status = "ok" /\ last.status = "ok") => prev.value = last.value
        /\ prev.query_calls + last.inv.query <= 1

\* C7 amended: when the first of the two calls returns a string, the second returns
\* the same string and the query engine is called at most once in total.
C7_TwiceQueriesOnceAfterSuccess ==
    (SameQueryTwice /\ prev.status = "ok") =>
        /\ last.status = "ok"
        /\ prev.value = last.value
        /\ prev.query_calls + last.inv.query <= 1

\* the first call asked the engine, the second was served from the cache
C7_Witness ==
    /\ SameQueryTwice /\ prev.status = "ok" /\ prev.query_calls = 1
    /\ last.status = "ok" /\ last.inv.hit

\* C8 as stated: a response of httpx.get that is not 2xx is a failed fetch: the call
\* does not go on to write, read or index the body, stores no index for the url, and
\* the process_pdf call (the batch item) that got it fails.
C8_Non2xxIsFetchFailure ==
    /\ (inv.status # 0 /\ ~Is2xx(inv.status)) =>
            /\ pc \notin {"write", "load", "build", "remove", "query"}
            /\ pdf_url \notin DOMAIN index_cache
    /\ (Completed /\ last.inv.status # 0 /\ ~Is2xx(last.inv.status)) =>
            last.status = "raised"

\* C9: an index that is in self.index_cache stays there unchanged through every call;
\* create_index_from_pdf(s) returns it; httpx.get and from_documents are not called
\* for s again (the processor does not reach lines 42-64 with pdf_url = s).
C9_IndexCacheInsertOnly ==
    [][\A s \in DOMAIN index_cache :
          /\ s \in DOMAIN index_cache' /\ index_cache'[s] = index_cache[s]
          /\ pdf_url' = s => pc' \notin {"fetch", "write", "load", "build"}
          /\ (outcome'.op = "index" /\ outcome'.status = "ok" /\ outcome'.url = s) =>
                outcome'.index = index_cache[s]
          /\ (pc' = "query" /\ pdf_url' = s) => index' = index_cache[s]
      ]_vars

\* a process_pdf call built the index of a url, then create_index_from_pdf returned it
C9_Witness ==
    /\ pc = "idle" /\ outcome.op = "index" /\ outcome.status = "ok" /\ ~outcome.built
    /\ Completed /\ last.inv.built /\ last.url = outcome.url
    /\ outcome.index = index_cache[outcome.url]

\* create_index_from_pdf has just returned an index it built in this call
ReturnedBuiltIndex ==
    \/ pc = "query" /\ inv.built
    \/ pc = "idle" /\ outcome.op = "index" /\ outcome.status = "ok" /\ outcome.built

\* C10: when create_index_from_pdf misses the index cache, builds an index and
\* returns it, temp.pdf does not exist at the return.
C10_TempFileRemovedOnSuccess == ReturnedBuiltIndex => fs = NoFile

\* the index of a PDF was built and returned to process_pdf
C10_Witness == pc = "query" /\ inv.built /\ index.docs # <<>> /\ fs = NoFile

\* C11: when two sessions, each with its own processor, build indexes in the same
\* working directory, every index cached under a source is built from documents of
\* that source only: the bytes of one session never reach the other's builder.
C11_IndexBuiltFromOwnSource ==
    /\ \A s \in DOMAIN index_cache :
          \A i \in 1..Len(index_cache[s].docs) : index_cache[s].docs[i].of = s
    /\ \A s \in DOMAIN other.index_cache :
          \A i \in 1..Len(other.index_cache[s].docs) : other.index_cache[s].docs[i].of = s

\* C12: an entry of the answer cache is immutable once stored: no step removes a
\* key of self.cache or changes the string stored under it.
C12_CacheEntriesImmutable ==
    [][\A k \in DOMAIN cache : k \in DOMAIN cache' /\ cache'[k] = cache[k]]_vars

\* A call that bypassed the cache got another string than the one stored under its
\* key, and the stored one is still there.
C12_Witness ==
    /\ Completed
    /\ last.status = "ok"
    /\ ~last.use_cache
    /\ CacheKey(last.url, last.query) \in DOMAIN cache
    /\ cache[CacheKey(last.url, last.query)] # last.value

\* The steps of one process_pdf call at which a collaborator is about to be invoked
CollaboratorSteps == {"fetch", "write", "load", "build", "remove", "query"}

\* C13: a batch processes its items strictly in input order, one at a time: whenever
\* a collaborator is about to be invoked in a batch, it is for the url at the loop's
\* position, and the items of all earlier positions, and no others, have been appended.
C13_BatchInOrderOneAtATime ==
    (mode = "batch" /\ pc \in CollaboratorSteps) =>
        /\ pos \in 1..Len(pdf_urls)
        /\ pdf_url = pdf_urls[pos]
        /\ Len(results) = pos - 1
        /\ \A i \in 1..Len(results) : results[i].url = pdf_urls[i]

\* The second item of a batch is at its fetch; the first item has been appended.
C13_Witness ==
    /\ mode = "batch"
    /\ pc = "fetch"
    /\ pos = 2
    /\ Len(results) = 1
    /\ results[1].url = pdf_urls[1]
    /\ pdf_urls[1] # pdf_urls[2]

AtMostOnce(n) == n.fetch <= 1 /\ n.build <= 1 /\ n.query <= 1

\* The call c raised: the collaborator its message names was the last one invoked.
StoppedAtFailure(c) ==
    /\ c.value = ProcessPdfError(CreateIndexError("ConnectError")) =>
          c.inv.fetch = 1 /\ c.inv.build = 0 /\ c.inv.query = 0
    /\ c.value \in {ProcessPdfError(CreateIndexError("OSError")),
                    ProcessPdfError(CreateIndexError("ReaderError"))} =>
          c.inv.fetch = 1 /\ c.inv.build = 0 /\ c.inv.query = 0
    /\ c.value = ProcessPdfError(CreateIndexError("EmbeddingError")) =>
          c.inv.fetch = 1 /\ c.inv.build = 1 /\ c.inv.query = 0
    /\ c.value = ProcessPdfError(CreateIndexError("PermissionError")) =>
          c.inv.fetch = 1 /\ c.inv.build = 1 /\ c.inv.query = 0
    /\ c.value = ProcessPdfError("LLMError") => c.inv.query = 1

\* C14: there is no retry.  Within one process_pdf call httpx.get, from_documents and
\* query_engine.query are each invoked at most once, and a call that raised invoked
\* nothing after the collaborator that failed; in a batch every return to the loop
\* head has used up one position and appended one item, so each item gets one attempt.
C14_NoRetry ==
    [][/\ AtMostOnce(inv')
       /\ AtMostOnce(last'.inv)
       /\ last'.status = "raised" => StoppedAtFailure(last')
       /\ (mode = "batch" /\ pc = "loop" /\ pc' \in CollaboratorSteps) => pos' = pos
       /\ (mode = "batch" /\ mode' = "batch" /\ pc' = "loop") =>
             /\ pos' = pos + 1
             /\ Len(results') = Len(results) + 1
             /\ results'[pos].url = pdf_urls[pos]
             /\ pdf_urls' = pdf_urls]_vars

\* The first item of a batch failed at from_documents after one fetch, and the batch
\* has gone on to its second item.
C14_Witness ==
    /\ mode = "batch"
    /\ pos = 2
    /\ pc \in CollaboratorSteps
    /\ last.batch
    /\ last.status = "raised"
    /\ last.value = ProcessPdfError(CreateIndexError("EmbeddingError"))
    /\ last.inv.fetch = 1
    /\ last.inv.build = 1
    /\ results[1].status = "error"

NonBlankStripped(url) ==
    url # <<>> /\ url[1] \notin Whitespace /\ url[Len(url)] \notin Whitespace

\* C15: the user interface calls batch_process_pdfs only with a list that has at
\* least one element and whose elements are all non-empty and stripped; for any text
\* in the URL area a click gives either that call or a warning and no call.
C15_BatchCalledWithUrlsOnly ==
    /\ ui.shown \in {"welcome", "warning", "results"}
    /\ ui.shown = "results" =>
          /\ Len(ui.urls_list) >= 1
          /\ \A i \in 1..Len(ui.urls_list) : NonBlankStripped(ui.urls_list[i])
    /\ ui.shown = "warning" => ui.urls_list = <<>> /\ Strip(ui.text) = <<>>

\* The call was made with two urls from a text that had a blank or padded line.
C15_Witness ==
    /\ ui.shown = "results"
    /\ Len(ui.urls_list) = 2
    /\ Len(ui.text) > Len(ui.urls_list[1]) + Len(ui.urls_list[2]) + 1

\* C16: the answer cache is keyed by the pair (url, query): a string returned from
\* the cache for (url, query) was stored by a call for that same url and that same
\* query, whose query engine gave it, also when the strings contain ":".
C16_CachedAnswerIsOfItsPair ==
    (Completed /\ last.inv.hit) =>
        writer[CacheKey(last.url, last.query)] = <<last.url, last.query>>

\* C17: whenever create_index_from_pdf fails, in a direct call or inside a single
\* process_pdf call, whichever of the fetch, the file write, the load, the build or
\* the removal raised, the index cache is what it was before the call.
C17_FailureLeavesIndexCache ==
    (/\ pc = "idle"
     /\ outcome.status = "raised"
     /\ \/ outcome.op = "index"
        \/ outcome.op = "single" /\ last.inv.query = 0) =>
        index_cache = index0

\* C18: every entry of the answer cache was stored by a process_pdf call with
\* use_cache whose url has an index in the index cache: no answer is cached for a
\* source that has no cached index.
C18_CachedAnswerHasIndex ==
    /\ DOMAIN writer = DOMAIN cache
    /\ \A k \in DOMAIN cache :
          /\ writer[k][1] \in DOMAIN index_cache
          /\ CacheKey(writer[k][1], writer[k][2]) = k
    /\ (Completed /\ last.status = "ok" /\ ~last.cacheSame) =>
          last.use_cache /\ last.url \in DOMAIN index_cache

\* The answer cache holds an entry whose key two pairs share; the url of the pair
\* that stored it is indexed and the url of the other pair is not.
C18_Witness ==
    /\ pc = "idle"
    /\ \E k \in DOMAIN cache :
          \E u \in URLs, q \in Queries :
              /\ CacheKey(u, q) = k
              /\ <<u, q>> # writer[k]
              /\ u \notin DOMAIN index_cache
              /\ writer[k][1] \in DOMAIN index_cache

====
